---- MODULE Spec2Model ----
(***************************************************************************)
(* Model of internal/model/webauthn.go: the WebAuthn device entity, its    *)
(* constructor and sign-in updater, the user adapter handed to the         *)
(* ceremony engine, and the export codec (ToData / UnmarshalYAML).         *)
(*                                                                         *)
(* Go strings that the code only copies or compares (rpid, username,       *)
(* description, attestation type) are TLA+ strings.  Strings the code      *)
(* takes apart or builds (transport, base64 text, UUID text) are           *)
(* sequences of one-character strings.  Byte slices are sequences of       *)
(* 0..255.  A time.Time is a record [sec, nsec].                           *)
(***************************************************************************)
EXTENDS Integers, Sequences, FiniteSets, TLC

VARIABLES
    pc,          \* position in the scenario being run
    cred,        \* arguments of the last NewWebAuthnDeviceFromCredential call
    device,      \* the WebAuthnDevice under consideration
    before,      \* device as it was before the last UpdateSignInInfo call
    call,        \* arguments of the last UpdateSignInInfo call
    data,        \* WebAuthnDeviceData produced by the last ToData
    input,       \* WebAuthnDeviceData handed to the last UnmarshalYAML
    target0,     \* receiver of the last UnmarshalYAML, before the call
    target,      \* receiver of the last UnmarshalYAML, after the call
    err,         \* whether the last decode returned an error
    user,        \* the WebAuthnUser (sequence of devices) being translated
    marshalErr,  \* indices of user devices whose AAGUID.MarshalBinary errs
    credentials, \* result of WebAuthnCredentials
    descriptors, \* result of WebAuthnCredentialDescriptors
    export,      \* WebAuthnDeviceExport (sequence of devices)
    exportData,  \* WebAuthnDeviceDataExport produced by export.ToData
    document,    \* the sequence of WebAuthnDeviceData handed to the decoder
    imported     \* [err, devices] result of decoding document

vars == <<pc, cred, device, before, call, data, input, target0, target, err,
          user, marshalErr, credentials, descriptors,
          export, exportData, document, imported>>

-----------------------------------------------------------------------------
(* Bounds of the model.                                                    *)

MaxSignCount == 2      \* sign counters range over 0..MaxSignCount
MaxTransportLen == 3   \* stored transport strings of up to this many chars
MaxDevices == 2        \* devices of a user
MaxRecords == 3        \* records of an export container

-----------------------------------------------------------------------------
(* Bytes, hexadecimal and base64 text.                                     *)

Byte == 0..255

Range(s) == {s[i] : i \in 1..Len(s)}

HexDigits ==
    <<"0","1","2","3","4","5","6","7","8","9","a","b","c","d","e","f">>

HexUpper ==
    <<"0","1","2","3","4","5","6","7","8","9","A","B","C","D","E","F">>

\* encoding/hex EncodeToString: two lower-case digits per byte.
RECURSIVE HexEncodeToString(_)
HexEncodeToString(b) ==
    IF b = <<>> THEN <<>>
    ELSE <<HexDigits[(b[1] \div 16) + 1], HexDigits[(b[1] % 16) + 1]>>
         \o HexEncodeToString(Tail(b))

\* google/uuid xvalues: value of a hex digit of either case, 255 otherwise.
XValue(c) ==
    IF \E i \in 1..16 : HexDigits[i] = c
    THEN (CHOOSE i \in 1..16 : HexDigits[i] = c) - 1
    ELSE IF \E i \in 1..16 : HexUpper[i] = c
    THEN (CHOOSE i \in 1..16 : HexUpper[i] = c) - 1
    ELSE 255

\* google/uuid xtob: the byte written as two hex digits.
XtobOk(c1, c2) == XValue(c1) # 255 /\ XValue(c2) # 255
Xtob(c1, c2) == XValue(c1) * 16 + XValue(c2)

StdAlphabet ==
    <<"A","B","C","D","E","F","G","H","I","J","K","L","M","N","O","P",
      "Q","R","S","T","U","V","W","X","Y","Z","a","b","c","d","e","f",
      "g","h","i","j","k","l","m","n","o","p","q","r","s","t","u","v",
      "w","x","y","z","0","1","2","3","4","5","6","7","8","9","+","/">>

StdPadding == "="

\* base64.StdEncoding.EncodeToString: 3 bytes to 4 characters, padded.
RECURSIVE StdEncodeToString(_)
StdEncodeToString(b) ==
    IF Len(b) = 0 THEN <<>>
    ELSE IF Len(b) = 1 THEN
        <<StdAlphabet[(b[1] \div 4) + 1],
          StdAlphabet[((b[1] % 4) * 16) + 1],
          StdPadding, StdPadding>>
    ELSE IF Len(b) = 2 THEN
        <<StdAlphabet[(b[1] \div 4) + 1],
          StdAlphabet[((b[1] % 4) * 16 + (b[2] \div 16)) + 1],
          StdAlphabet[((b[2] % 16) * 4) + 1],
          StdPadding>>
    ELSE
        <<StdAlphabet[(b[1] \div 4) + 1],
          StdAlphabet[((b[1] % 4) * 16 + (b[2] \div 16)) + 1],
          StdAlphabet[((b[2] % 16) * 4 + (b[3] \div 64)) + 1],
          StdAlphabet[(b[3] % 64) + 1]>>
        \o StdEncodeToString(SubSeq(b, 4, Len(b)))

StdIsDigit(c) == \E i \in 1..64 : StdAlphabet[i] = c
StdValue(c) == (CHOOSE i \in 1..64 : StdAlphabet[i] = c) - 1

\* One quantum of base64 decoding: the bytes of up to four characters q,
\* [bytes, err].  Padding is required and may only end the input, which
\* `last` says q does.
StdDecodeQuantum(q, last) ==
    LET bad == [bytes |-> <<>>, err |-> TRUE]
        v(i) == StdValue(q[i])
        b1 == v(1) * 4 + (v(2) \div 16)
        b2 == (v(2) % 16) * 16 + (v(3) \div 4)
        b3 == (v(3) % 4) * 64 + v(4)
    IN  IF Len(q) < 4 THEN bad
        ELSE IF ~StdIsDigit(q[1]) \/ ~StdIsDigit(q[2]) THEN bad
        ELSE IF StdIsDigit(q[3]) /\ StdIsDigit(q[4])
             THEN [bytes |-> <<b1, b2, b3>>, err |-> FALSE]
        ELSE IF StdIsDigit(q[3]) /\ q[4] = StdPadding /\ last
             THEN [bytes |-> <<b1, b2>>, err |-> FALSE]
        ELSE IF q[3] = StdPadding /\ q[4] = StdPadding /\ last
             THEN [bytes |-> <<b1>>, err |-> FALSE]
        ELSE bad

\* base64.StdEncoding.DecodeString: [bytes, err]; on an error bytes holds
\* what the quanta before the corrupt one decoded to (dbuf[:n]).
RECURSIVE StdDecodeString(_)
StdDecodeString(s) ==
    IF Len(s) = 0 THEN [bytes |-> <<>>, err |-> FALSE]
    ELSE LET n == IF Len(s) < 4 THEN Len(s) ELSE 4
             q == StdDecodeQuantum(SubSeq(s, 1, n), Len(s) <= 4)
         IN  IF q.err THEN q
             ELSE LET rest == StdDecodeString(SubSeq(s, 5, Len(s)))
                  IN  [bytes |-> q.bytes \o rest.bytes, err |-> rest.err]

-----------------------------------------------------------------------------
(* UUIDs (github.com/google/uuid): 16 bytes.                               *)

UUIDLen == 16

NilUUID == [i \in 1..UUIDLen |-> 0]

\* UUID.ID(): the big-endian uint32 held in the first four bytes.
UUIDID(u) == ((u[1] * 256 + u[2]) * 256 + u[3]) * 256 + u[4]

\* UUID.String(): xxxxxxxx-xxxx-xxxx-xxxx-xxxxxxxxxxxx.
UUIDString(u) ==
    HexEncodeToString(SubSeq(u, 1, 4)) \o <<"-">>
    \o HexEncodeToString(SubSeq(u, 5, 6)) \o <<"-">>
    \o HexEncodeToString(SubSeq(u, 7, 8)) \o <<"-">>
    \o HexEncodeToString(SubSeq(u, 9, 10)) \o <<"-">>
    \o HexEncodeToString(SubSeq(u, 11, 16))

\* Offsets (1-based) of the 16 digit pairs in the hyphenated form.
UUIDOffsets == <<1, 3, 5, 7, 10, 12, 15, 17, 20, 22, 25, 27, 29, 31, 33, 35>>

UUIDParse36(s) ==
    IF s[9] # "-" \/ s[14] # "-" \/ s[19] # "-" \/ s[24] # "-"
    THEN [uuid |-> NilUUID, err |-> TRUE]
    ELSE IF \E i \in 1..UUIDLen :
                ~XtobOk(s[UUIDOffsets[i]], s[UUIDOffsets[i] + 1])
    THEN [uuid |-> NilUUID, err |-> TRUE]
    ELSE [uuid |-> [i \in 1..UUIDLen |->
                       Xtob(s[UUIDOffsets[i]], s[UUIDOffsets[i] + 1])],
          err |-> FALSE]

UrnPrefix == <<"u","r","n",":","u","u","i","d",":">>

\* uuid.Parse: the hyphenated form, that form in braces or after urn:uuid:
\* (matched exactly here, not case-folded), or 32 bare hex digits.
UUIDParse(s) ==
    IF Len(s) = 36 THEN UUIDParse36(s)
    ELSE IF Len(s) = 45 THEN
        IF SubSeq(s, 1, 9) # UrnPrefix THEN [uuid |-> NilUUID, err |-> TRUE]
        ELSE UUIDParse36(SubSeq(s, 10, 45))
    ELSE IF Len(s) = 38 THEN UUIDParse36(SubSeq(s, 2, 38))
    ELSE IF Len(s) = 32 THEN
        IF \E i \in 1..UUIDLen : ~XtobOk(s[2 * i - 1], s[2 * i])
        THEN [uuid |-> NilUUID, err |-> TRUE]
        ELSE [uuid |-> [i \in 1..UUIDLen |-> Xtob(s[2 * i - 1], s[2 * i])],
              err |-> FALSE]
    ELSE [uuid |-> NilUUID, err |-> TRUE]

-----------------------------------------------------------------------------
(* Times, optional values and the Base64 wrapper.                          *)

NanosPerSecond == 1000000000

\* The zero time.Time: an instant before every instant of the clock.
ZeroTime == [sec |-> -1, nsec |-> 0]

\* time.Unix(sec, nsec): nsec outside [0, 1e9) is carried into sec.
TimeUnix(sec, nsec) ==
    [sec |-> sec + (nsec \div NanosPerSecond), nsec |-> nsec % NanosPerSecond]

\* sql.NullTime and uuid.NullUUID zero values.
NullTime == [time |-> ZeroTime, valid |-> FALSE]
NullUUID == [uuid |-> NilUUID, valid |-> FALSE]

\* NullUUID.MarshalBinary: the 16 bytes when valid, nil otherwise.  The
\* signature also returns an error, which `fails` stands for.
MarshalBinary(nu, fails) ==
    [bytes |-> IF fails THEN <<>> ELSE IF nu.valid THEN nu.uuid ELSE <<>>,
     err |-> fails]

\* model.Base64: a byte slice whose text form is standard base64.
NewBase64(b) == [data |-> b]
Base64Bytes(k) == k.data
Base64String(k) == StdEncodeToString(k.data)

-----------------------------------------------------------------------------
(* strings.Join and strings.Split with the "," delimiter.                  *)

Delimiter == ","

RECURSIVE StringsJoin(_)
StringsJoin(tokens) ==
    IF Len(tokens) = 0 THEN <<>>
    ELSE IF Len(tokens) = 1 THEN tokens[1]
    ELSE tokens[1] \o <<Delimiter>> \o StringsJoin(Tail(tokens))

\* strings.Split(s, ","): one more piece than there are delimiters, empty
\* pieces included; the empty string splits into one empty piece.
RECURSIVE StringsSplit(_)
StringsSplit(s) ==
    IF \A i \in 1..Len(s) : s[i] # Delimiter THEN <<s>>
    ELSE LET i == CHOOSE k \in 1..Len(s) :
                      s[k] = Delimiter /\ \A j \in 1..(k - 1) : s[j] # Delimiter
         IN  <<SubSeq(s, 1, i - 1)>> \o StringsSplit(SubSeq(s, i + 1, Len(s)))

-----------------------------------------------------------------------------
(* The entity and its operations.                                          *)

attestationTypeFIDOU2F == "fido-u2f"

\* The zero WebAuthnDevice.
ZeroDevice ==
    [id |-> 0, created_at |-> ZeroTime, last_used_at |-> NullTime,
     rpid |-> "", username |-> "", description |-> "",
     kid |-> NewBase64(<<>>), public_key |-> <<>>,
     attestation_type |-> "", transport |-> <<>>, aaguid |-> NullUUID,
     sign_count |-> 0, clone_warning |-> FALSE]

\* The zero WebAuthnDeviceData.
ZeroData ==
    [created_at |-> ZeroTime, last_used_at |-> [present |-> FALSE, time |-> ZeroTime],
     rpid |-> "", username |-> "", description |-> "",
     kid |-> <<>>, public_key |-> <<>>, attestation_type |-> "",
     transport |-> <<>>, aaguid |-> <<>>, sign_count |-> 0,
     clone_warning |-> FALSE]

\* The zero webauthn.Credential.
ZeroCredential ==
    [ID |-> <<>>, PublicKey |-> <<>>, AttestationType |-> "",
     Transport |-> <<>>,
     Authenticator |-> [AAGUID |-> <<>>, SignCount |-> 0, CloneWarning |-> FALSE]]

\* NewWebAuthnDeviceFromCredential; `now` is the value of time.Now().
NewWebAuthnDeviceFromCredential(rpid, username, description, credential, now) ==
    LET dev == [ZeroDevice EXCEPT
                   !.rpid = rpid,
                   !.username = username,
                   !.created_at = now,
                   !.description = description,
                   !.kid = NewBase64(credential.ID),
                   !.public_key = credential.PublicKey,
                   !.attestation_type = credential.AttestationType,
                   !.sign_count = credential.Authenticator.SignCount,
                   !.clone_warning = credential.Authenticator.CloneWarning,
                   !.transport = StringsJoin(credential.Transport)]
        parsed == UUIDParse(HexEncodeToString(credential.Authenticator.AAGUID))
    IN  IF ~parsed.err /\ UUIDID(parsed.uuid) # 0
        THEN [dev EXCEPT !.aaguid = [uuid |-> parsed.uuid, valid |-> TRUE]]
        ELSE dev

\* Variants of UpdateSignInInfo with one plausible slip each.
UpdateSignInInfoOverwrite(d, config, now, signCount) ==
    LET d1 == [d EXCEPT !.last_used_at = [time |-> now, valid |-> TRUE],
                        !.sign_count = signCount]
    IN  IF d1.attestation_type = attestationTypeFIDOU2F
        THEN [d1 EXCEPT !.rpid = config.RPOrigin]
        ELSE [d1 EXCEPT !.rpid = config.RPID]

UpdateSignInInfoSwapped(d, config, now, signCount) ==
    LET d1 == [d EXCEPT !.last_used_at = [time |-> now, valid |-> TRUE],
                        !.sign_count = signCount]
    IN  IF d1.rpid # "" THEN d1
        ELSE IF d1.attestation_type = attestationTypeFIDOU2F
             THEN [d1 EXCEPT !.rpid = config.RPID]
             ELSE [d1 EXCEPT !.rpid = config.RPOrigin]

UpdateSignInInfoMonotonic(d, config, now, signCount) ==
    LET d1 == [d EXCEPT !.last_used_at = [time |-> now, valid |-> TRUE],
                        !.sign_count = IF signCount > @ THEN signCount ELSE @]
    IN  IF d1.rpid # "" THEN d1
        ELSE IF d1.attestation_type = attestationTypeFIDOU2F
             THEN [d1 EXCEPT !.rpid = config.RPOrigin]
             ELSE [d1 EXCEPT !.rpid = config.RPID]

UpdateSignInInfoCloneCheck(d, config, now, signCount) ==
    LET d1 == [d EXCEPT !.last_used_at = [time |-> now, valid |-> TRUE],
                        !.clone_warning = @ \/ signCount < d.sign_count,
                        !.sign_count = signCount]
    IN  IF d1.rpid # "" THEN d1
        ELSE IF d1.attestation_type = attestationTypeFIDOU2F
             THEN [d1 EXCEPT !.rpid = config.RPOrigin]
             ELSE [d1 EXCEPT !.rpid = config.RPID]

\* WebAuthnDevice.UpdateSignInInfo.
UpdateSignInInfo(d, config, now, signCount) ==
    LET d1 == [d EXCEPT !.last_used_at = [time |-> now, valid |-> TRUE],
                        !.sign_count = signCount]
    IN  IF d1.rpid # "" THEN d1
        ELSE IF d1.attestation_type = attestationTypeFIDOU2F
             THEN [d1 EXCEPT !.rpid = config.RPOrigin]
             ELSE [d1 EXCEPT !.rpid = config.RPID]

\* LastUsed rebuilding the time from its seconds alone.
LastUsedSeconds(d) ==
    IF d.last_used_at.valid
    THEN [present |-> TRUE, time |-> TimeUnix(d.last_used_at.time.sec, 0)]
    ELSE [present |-> FALSE, time |-> ZeroTime]

\* WebAuthnDevice.LastUsed: a *time.Time, nil when last_used_at is not valid.
LastUsed(d) ==
    IF d.last_used_at.valid
    THEN [present |-> TRUE,
          time |-> TimeUnix(d.last_used_at.time.sec, d.last_used_at.time.nsec)]
    ELSE [present |-> FALSE, time |-> ZeroTime]

\* WebAuthnDevice.ToData.
ToData(d) ==
    [created_at |-> d.created_at,
     last_used_at |-> LastUsed(d),
     rpid |-> d.rpid,
     username |-> d.username,
     description |-> d.description,
     kid |-> Base64String(d.kid),
     public_key |-> StdEncodeToString(d.public_key),
     attestation_type |-> d.attestation_type,
     transport |-> d.transport,
     aaguid |-> UUIDString(d.aaguid.uuid),
     sign_count |-> d.sign_count,
     clone_warning |-> d.clone_warning]

\* UnmarshalYAML going on after a public key that does not decode.
UnmarshalYAMLLenient(d, o, nodeOk) ==
    IF ~nodeOk THEN [d |-> d, err |-> TRUE]
    ELSE
    LET pk == StdDecodeString(o.public_key)
        d1 == [d EXCEPT !.public_key = pk.bytes]
        aaguid == UUIDParse(o.aaguid)
        d2 == IF UUIDID(aaguid.uuid) # 0
              THEN [d1 EXCEPT !.aaguid = [uuid |-> aaguid.uuid, valid |-> TRUE]]
              ELSE d1
        kid == StdDecodeString(o.kid)
        d3 == [d2 EXCEPT !.kid = NewBase64(kid.bytes),
                         !.created_at = o.created_at,
                         !.rpid = o.rpid,
                         !.username = o.username,
                         !.description = o.description,
                         !.attestation_type = o.attestation_type,
                         !.transport = o.transport,
                         !.sign_count = o.sign_count,
                         !.clone_warning = o.clone_warning]
        d4 == IF o.last_used_at.present
              THEN [d3 EXCEPT !.last_used_at =
                                  [time |-> o.last_used_at.time, valid |-> TRUE]]
              ELSE d3
    IN  IF aaguid.err THEN [d |-> d1, err |-> TRUE]
        ELSE IF kid.err THEN [d |-> d2, err |-> TRUE]
        ELSE [d |-> d4, err |-> FALSE]

\* WebAuthnDevice.UnmarshalYAML on receiver d: [d, err].  o is what
\* value.Decode produced and nodeOk whether it succeeded.
UnmarshalYAML(d, o, nodeOk) ==
    IF ~nodeOk THEN [d |-> d, err |-> TRUE]
    ELSE
    LET pk == StdDecodeString(o.public_key)
        d1 == [d EXCEPT !.public_key = pk.bytes]
        aaguid == UUIDParse(o.aaguid)
        d2 == IF UUIDID(aaguid.uuid) # 0
              THEN [d1 EXCEPT !.aaguid = [uuid |-> aaguid.uuid, valid |-> TRUE]]
              ELSE d1
        kid == StdDecodeString(o.kid)
        d3 == [d2 EXCEPT !.kid = NewBase64(kid.bytes),
                         !.created_at = o.created_at,
                         !.rpid = o.rpid,
                         !.username = o.username,
                         !.description = o.description,
                         !.attestation_type = o.attestation_type,
                         !.transport = o.transport,
                         !.sign_count = o.sign_count,
                         !.clone_warning = o.clone_warning]
        d4 == IF o.last_used_at.present
              THEN [d3 EXCEPT !.last_used_at =
                                  [time |-> o.last_used_at.time, valid |-> TRUE]]
              ELSE d3
    IN  IF pk.err THEN [d |-> d1, err |-> TRUE]
        ELSE IF aaguid.err THEN [d |-> d1, err |-> TRUE]
        ELSE IF kid.err THEN [d |-> d2, err |-> TRUE]
        ELSE [d |-> d4, err |-> FALSE]

-----------------------------------------------------------------------------
(* The user adapter.                                                       *)

\* The transport loop without its test for the empty piece.
TransportsUnfiltered(pieces) == pieces

\* The transport loop of WebAuthnCredentials: the pieces that are not empty.
RECURSIVE Transports(_)
Transports(pieces) ==
    IF Len(pieces) = 0 THEN <<>>
    ELSE IF pieces[1] = <<>> THEN Transports(Tail(pieces))
    ELSE <<pieces[1]>> \o Transports(Tail(pieces))

\* The credential WebAuthnCredentials builds for one device.
DeviceCredential(d, aaguid) ==
    [ID |-> Base64Bytes(d.kid),
     PublicKey |-> d.public_key,
     AttestationType |-> d.attestation_type,
     Transport |-> Transports(StringsSplit(d.transport)),
     Authenticator |-> [AAGUID |-> aaguid,
                        SignCount |-> d.sign_count,
                        CloneWarning |-> d.clone_warning]]

\* WebAuthnUser.WebAuthnCredentials: a slice of len(w.Devices) elements;
\* element i is assigned unless MarshalBinary of device i errs (i in failing).
WebAuthnCredentials(devices, failing) ==
    [i \in 1..Len(devices) |->
        LET m == MarshalBinary(devices[i].aaguid, i \in failing)
        IN  IF m.err THEN ZeroCredential
            ELSE DeviceCredential(devices[i], m.bytes)]

\* webauthn.Credential.Descriptor.
Descriptor(c) ==
    [Type |-> "public-key", CredentialID |-> c.ID, Transport |-> c.Transport,
     AttestationType |-> c.AttestationType]

\* WebAuthnUser.WebAuthnCredentialDescriptors.
WebAuthnCredentialDescriptors(devices, failing) ==
    LET creds == WebAuthnCredentials(devices, failing)
    IN  [i \in 1..Len(creds) |-> Descriptor(creds[i])]

-----------------------------------------------------------------------------
(* The export container.                                                   *)

\* WebAuthnDeviceExport.ToData.
ExportToData(devices) == [i \in 1..Len(devices) |-> ToData(devices[i])]

\* Decoding a WebAuthnDeviceExport: each record is decoded into a fresh
\* device by UnmarshalYAML, in order; the first error aborts the decode and
\* no container is returned.
RECURSIVE DecodeExport(_)
DecodeExport(doc) ==
    IF Len(doc) = 0 THEN [err |-> FALSE, devices |-> <<>>]
    ELSE LET r == UnmarshalYAML(ZeroDevice, doc[1], TRUE)
         IN  IF r.err THEN [err |-> TRUE, devices |-> <<>>]
             ELSE LET rest == DecodeExport(Tail(doc))
                  IN  IF rest.err THEN [err |-> TRUE, devices |-> <<>>]
                      ELSE [err |-> FALSE, devices |-> <<r.d>> \o rest.devices]

-----------------------------------------------------------------------------
(* Inputs.                                                                 *)

Usb == <<"u", "s", "b">>
Nfc == <<"n", "f", "c">>

\* "usb,nfc" as stored.
UsbNfc == <<"u", "s", "b", ",", "n", "f", "c">>

AttestationTypes == {attestationTypeFIDOU2F, "packed", "FIDO-U2F"}

\* AAGUID bytes of a credential: absent, all zero, non-zero only after the
\* first four bytes, non-zero in the first four bytes, and of a wrong length.
ZeroAAGUID == [i \in 1..16 |-> 0]
LowAAGUID == [i \in 1..16 |-> IF i = 16 THEN 1 ELSE 0]
HighAAGUID == [i \in 1..16 |-> IF i = 1 THEN 47 ELSE IF i = 16 THEN 170 ELSE 0]
ShortAAGUID == [i \in 1..15 |-> 1]
LongAAGUID == [i \in 1..18 |-> 1]

AAGUIDs == {<<>>, ZeroAAGUID, LowAAGUID, HighAAGUID, ShortAAGUID, LongAAGUID}

RPIDs == {"", "example.com"}

\* Relying-party configurations: an origin and a relying-party id.
Configs ==
    [RPOrigin : {"", "https://example.com", "https://other.example"},
     RPID : {"", "example.com", "other.example"}]

\* Instants of the clock.
Instants == {[sec |-> 1, nsec |-> 0], [sec |-> 2, nsec |-> 999999999]}

Counts == 0..MaxSignCount

NoCall == [config |-> [RPOrigin |-> "", RPID |-> ""], now |-> ZeroTime,
           signCount |-> 0]

NoCred == [rpid |-> "", username |-> "", description |-> "",
           credential |-> ZeroCredential, now |-> ZeroTime]

NoInput == [data |-> ZeroData, ok |-> TRUE]

NoImport == [err |-> FALSE, devices |-> <<>>]

\* The state before any operation has run.
Init ==
    /\ pc = "new"
    /\ cred = NoCred
    /\ device = ZeroDevice
    /\ before = ZeroDevice
    /\ call = NoCall
    /\ data = ZeroData
    /\ input = NoInput
    /\ target0 = ZeroDevice
    /\ target = ZeroDevice
    /\ err = FALSE
    /\ user = <<>>
    /\ marshalErr = {}
    /\ credentials = <<>>
    /\ descriptors = <<>>
    /\ export = <<>>
    /\ exportData = <<>>
    /\ document = <<>>
    /\ imported = NoImport

codecVars == <<data, input, target0, target, err>>
userVars == <<user, marshalErr, credentials, descriptors>>
exportVars == <<export, exportData, document, imported>>
signInVars == <<before, call>>

-----------------------------------------------------------------------------
(* Registration and sign-in.                                               *)

\* A registration completes: the device is built from the credential.
RegisterWith(rpids, creds, clock) ==
    /\ pc = "new"
    /\ \E rpid \in rpids, c \in creds, now \in clock :
          /\ cred' = [rpid |-> rpid, username |-> "john",
                      description |-> "Primary", credential |-> c, now |-> now]
          /\ device' = NewWebAuthnDeviceFromCredential(rpid, "john", "Primary", c, now)
    /\ pc' = "registered"
    /\ UNCHANGED <<signInVars, codecVars, userVars, exportVars>>

\* A sign-in completes: the device is updated.
SignInWith(configs, clock, counts) ==
    /\ pc \in {"registered", "stored", "signedin"}
    /\ \E config \in configs, now \in clock, signCount \in counts :
          /\ before' = device
          /\ call' = [config |-> config, now |-> now, signCount |-> signCount]
          /\ device' = UpdateSignInInfo(device, config, now, signCount)
    /\ pc' = "signedin"
    /\ UNCHANGED <<cred, codecVars, userVars, exportVars>>

SignInCredentials ==
    {[ID |-> <<1>>, PublicKey |-> <<165>>, AttestationType |-> a,
      Transport |-> <<Usb, Nfc>>,
      Authenticator |-> [AAGUID |-> g, SignCount |-> n, CloneWarning |-> w]] :
        a \in AttestationTypes, g \in {HighAAGUID}, n \in Counts,
        w \in BOOLEAN}

Register == RegisterWith(RPIDs, SignInCredentials, {[sec |-> 0, nsec |-> 0]})

SignIn == SignInWith(Configs, Instants, Counts)

Next == Register \/ SignIn

Spec == Init /\ [][Next]_vars

-----------------------------------------------------------------------------
(* Claims about the sign-in updater, under Spec.                           *)

\* The device as the constructor returned it.
Constructed ==
    NewWebAuthnDeviceFromCredential(cred.rpid, cred.username, cred.description,
                                    cred.credential, cred.now)

\* C1: once rpid is non-empty (set at construction or by an earlier
\* sign-in update) no UpdateSignInInfo call changes it, whatever the
\* configuration; so rpid changes only from empty, at most once.
C1_RpidImmutable ==
    [][(pc # "new" /\ device.rpid # "") => device'.rpid = device.rpid]_vars

\* A sign-in update ran on a device with a non-empty rpid under a
\* configuration naming other values, and rpid is what it was.
C1_Witness ==
    /\ pc = "signedin"
    /\ before.rpid # ""
    /\ call.config.RPOrigin \notin {"", before.rpid}
    /\ call.config.RPID \notin {"", before.rpid}
    /\ device.rpid = before.rpid

\* The value UpdateSignInInfo is to assign to an empty rpid.
Selected(d, config) ==
    IF d.attestation_type = "fido-u2f" THEN config.RPOrigin ELSE config.RPID

C2_Assigned ==
    (pc = "signedin" /\ before.rpid = "") => device.rpid = Selected(before, call.config)

\* C2 as stated: an update of a device with empty rpid sets rpid to the
\* configured origin for "fido-u2f" and to the configured relying-party id
\* otherwise, and the update after it leaves rpid unchanged.
C2_Original ==
    /\ []C2_Assigned
    /\ [][(pc = "signedin" /\ before.rpid = "") => device'.rpid = device.rpid]_vars

\* C2 as amended: the same assignment, and the update after it leaves rpid
\* unchanged when the value assigned was not empty.
C2_Amended ==
    /\ []C2_Assigned
    /\ [][(pc = "signedin" /\ before.rpid = "" /\ device.rpid # "")
              => device'.rpid = device.rpid]_vars

\* A legacy device with empty rpid was updated and holds the configured
\* origin, which differs from the configured relying-party id.
C2_Witness ==
    /\ pc = "signedin"
    /\ before.rpid = ""
    /\ before.attestation_type = "fido-u2f"
    /\ call.config.RPOrigin # ""
    /\ call.config.RPOrigin # call.config.RPID
    /\ device.rpid = call.config.RPOrigin

\* C3: after every UpdateSignInInfo call last_used_at is valid and equal to
\* the call's now and sign_count equals the call's signCount.
C3_Overwrites ==
    pc = "signedin" =>
        /\ device.last_used_at = [time |-> call.now, valid |-> TRUE]
        /\ device.sign_count = call.signCount

\* An update reported a counter lower than the stored one and did not
\* assign rpid.
C3_Witness ==
    /\ pc = "signedin"
    /\ call.signCount < before.sign_count
    /\ before.rpid # ""
    /\ before.last_used_at.valid
    /\ device.sign_count = call.signCount

FrameFields ==
    {"id", "created_at", "username", "description", "kid", "public_key",
     "attestation_type", "transport", "aaguid", "clone_warning"}

\* C10: UpdateSignInInfo leaves id, created_at, username, description, kid,
\* public_key, attestation_type, transport, aaguid and clone_warning as they
\* were, so after any number of updates they hold the constructed values.
C10_Frame ==
    pc = "signedin" =>
        \A f \in FrameFields : device[f] = before[f] /\ device[f] = Constructed[f]

\* A second update reported a regressed counter on a device without a
\* clone warning, and assigned rpid.
C10_Witness ==
    /\ pc = "signedin"
    /\ before.last_used_at.valid
    /\ call.signCount < before.sign_count
    /\ ~before.clone_warning
    /\ before.rpid = ""
    /\ device.rpid # ""
    /\ ~device.clone_warning

-----------------------------------------------------------------------------
(* The constructor on its own, under SpecConstructor.                      *)

ConstructorCredentials ==
    {[ID |-> k, PublicKey |-> <<165, 1>>, AttestationType |-> a,
      Transport |-> t,
      Authenticator |-> [AAGUID |-> g, SignCount |-> n, CloneWarning |-> w]] :
        k \in {<<1>>, <<1, 2>>}, a \in AttestationTypes,
        t \in {<<>>, <<Usb>>, <<Usb, Nfc>>, <<Nfc, Usb>>},
        g \in AAGUIDs, n \in Counts, w \in BOOLEAN}

RegisterAny == RegisterWith(RPIDs, ConstructorCredentials, Instants)

NextConstructor == RegisterAny

SpecConstructor == Init /\ [][NextConstructor]_vars

\* What uuid.Parse makes of the credential's AAGUID bytes.
ParsedAAGUID == UUIDParse(HexEncodeToString(cred.credential.Authenticator.AAGUID))

\* C5: the constructor sets aaguid valid, carrying the parsed value, exactly
\* when the AAGUID bytes parse as a UUID that is not the all-zero UUID, and
\* leaves it unset otherwise.
C5_AaguidValidIffNonZero ==
    pc = "registered" =>
        IF ~ParsedAAGUID.err /\ ParsedAAGUID.uuid # NilUUID
        THEN device.aaguid = [uuid |-> ParsedAAGUID.uuid, valid |-> TRUE]
        ELSE device.aaguid = NullUUID

-----------------------------------------------------------------------------
(* The device codec, under SpecCodec.                                      *)

CodecCredentials ==
    {[ID |-> k, PublicKey |-> p, AttestationType |-> "packed",
      Transport |-> t,
      Authenticator |-> [AAGUID |-> g, SignCount |-> MaxSignCount,
                         CloneWarning |-> w]] :
        k \in {<<1>>, <<1, 2>>, <<77, 97, 110>>},
        p \in {<<255>>, <<165, 1, 2, 3>>},
        t \in {<<>>, <<Usb, Nfc>>},
        g \in {ZeroAAGUID, LowAAGUID, HighAAGUID}, w \in BOOLEAN}

\* Texts that are not base64: a good quantum followed by a corrupt one,
\* missing padding, and padding inside the text.
BadBase64 ==
    {<<"Q", "U", "J", "D", "!", "!", "!", "!">>,
     <<"Q", "Q">>,
     <<"Q", "Q", "=", "=", "Q", "Q", "=", "=">>}

\* Texts that are not UUIDs, made from the UUID text t.
BadUUID(t) == {<<>>, SubSeq(t, 1, 35), [t EXCEPT ![1] = "z"]}

\* The documents a decode may be handed: the encoded data, possibly with
\* its public_key, kid or aaguid text replaced.
DecodeInputs(o) ==
    {[o EXCEPT !.public_key = p, !.kid = k, !.aaguid = a] :
        p \in {o.public_key} \cup BadBase64,
        k \in {o.kid} \cup {<<"Q", "Q">>, <<"*", "*", "*", "*">>},
        a \in {o.aaguid} \cup BadUUID(o.aaguid)}

Enrol == RegisterWith({"example.com"}, CodecCredentials, {[sec |-> 1, nsec |-> 0]})

\* The persistence layer stores the device and gives it its id.
Store ==
    /\ pc = "registered"
    /\ device' = [device EXCEPT !.id = 7]
    /\ pc' = "stored"
    /\ UNCHANGED <<cred, signInVars, codecVars, userVars, exportVars>>

Use ==
    SignInWith({[RPOrigin |-> "https://example.com", RPID |-> "example.com"]},
               Instants, {0})

\* The device is exported.
Encode ==
    /\ pc \in {"registered", "stored", "signedin"}
    /\ data' = ToData(device)
    /\ pc' = "encoded"
    /\ UNCHANGED <<cred, device, signInVars, input, target0, target, err,
                   userVars, exportVars>>

\* A document is decoded into a device, fresh or not.
Decode ==
    /\ pc = "encoded"
    /\ \E o \in DecodeInputs(data), t \in {ZeroDevice, device}, ok \in BOOLEAN :
          LET r == UnmarshalYAML(t, o, ok)
          IN  /\ input' = [data |-> o, ok |-> ok]
              /\ target0' = t
              /\ target' = r.d
              /\ err' = r.err
    /\ pc' = "decoded"
    /\ UNCHANGED <<cred, device, signInVars, data, userVars, exportVars>>

NextCodec == Enrol \/ Store \/ Use \/ Encode \/ Decode

SpecCodec == Init /\ [][NextCodec]_vars

\* The encoded device was decoded into a fresh device.
RoundTrip ==
    pc = "decoded" /\ input = [data |-> data, ok |-> TRUE] /\ target0 = ZeroDevice

Malformed ==
    \/ StdDecodeString(input.data.public_key).err
    \/ StdDecodeString(input.data.kid).err
    \/ UUIDParse(input.data.aaguid).err

\* C7: a decode of a document whose public_key or kid is not base64, or
\* whose aaguid is not a UUID, returns an error and leaves the receiver as
\* it was before the call.
C7_NoPartialDevice ==
    (pc = "decoded" /\ input.ok /\ Malformed) => (err /\ target = target0)

-----------------------------------------------------------------------------
(* The user adapter, under SpecUser.                                       *)

\* Stored transport strings: every string over the delimiter and one other
\* character up to the bound, and "usb,nfc".
TransportStrings ==
    UNION {[1..n -> {Delimiter, "u"}] : n \in 0..MaxTransportLen} \cup {UsbNfc}

\* The i-th device of a user, with stored transport t.
UserDevice(i, t) ==
    [ZeroDevice EXCEPT
        !.id = i,
        !.created_at = [sec |-> 1, nsec |-> 0],
        !.rpid = "example.com",
        !.username = "john",
        !.kid = NewBase64(<<i>>),
        !.public_key = <<165, i>>,
        !.attestation_type = IF i = 1 THEN attestationTypeFIDOU2F ELSE "packed",
        !.transport = t,
        !.aaguid = IF i = 1 THEN [uuid |-> HighAAGUID, valid |-> TRUE] ELSE NullUUID,
        !.sign_count = i,
        !.clone_warning = (i = 1)]

\* The caller builds the WebAuthnUser from the user's devices.
LoadUser ==
    /\ pc = "new"
    /\ \E n \in 0..MaxDevices :
          \E ts \in [1..n -> TransportStrings] :
              user' = [i \in 1..n |-> UserDevice(i, ts[i])]
    /\ pc' = "user"
    /\ UNCHANGED <<cred, device, signInVars, codecVars, marshalErr, credentials,
                   descriptors, exportVars>>

\* The ceremony engine asks for the credentials; MarshalBinary errs for the
\* devices in `failing`.
Credentials ==
    /\ pc = "user"
    /\ \E failing \in SUBSET (1..Len(user)) :
          /\ marshalErr' = failing
          /\ credentials' = WebAuthnCredentials(user, failing)
    /\ pc' = "credentials"
    /\ UNCHANGED <<cred, device, signInVars, codecVars, user, descriptors,
                   exportVars>>

\* The ceremony engine asks for the descriptors.
Descriptors ==
    /\ pc = "credentials"
    /\ descriptors' = WebAuthnCredentialDescriptors(user, marshalErr)
    /\ pc' = "descriptors"
    /\ UNCHANGED <<cred, device, signInVars, codecVars, user, marshalErr,
                   credentials, exportVars>>

NextUser == LoadUser \/ Credentials \/ Descriptors

SpecUser == Init /\ [][NextUser]_vars

\* The devices whose aaguid serialized, in device order.
Serialized == {i \in 1..Len(user) : i \notin marshalErr}
NthSerialized(k) ==
    CHOOSE i \in Serialized : Cardinality({j \in Serialized : j < i}) = k - 1

TokenStarts(s) ==
    {i \in 1..Len(s) : s[i] # Delimiter /\ (i = 1 \/ s[i - 1] = Delimiter)}
TokenEnd(s, i) ==
    CHOOSE j \in i..Len(s) :
        /\ \A k \in i..j : s[k] # Delimiter
        /\ j = Len(s) \/ s[j + 1] = Delimiter
NthStart(s, k) ==
    CHOOSE i \in TokenStarts(s) : Cardinality({j \in TokenStarts(s) : j < i}) = k - 1
Tokens(s) ==
    [k \in 1..Cardinality(TokenStarts(s)) |->
        SubSeq(s, NthStart(s, k), TokenEnd(s, NthStart(s, k)))]

\* C8: a device's credential carries the stored transport string's tokens,
\* the non-empty pieces between delimiters in stored order: none for the
\* empty string, usb and nfc for "usb,nfc", and never an empty token.
C8_TransportTokens ==
    pc \in {"credentials", "descriptors"} =>
        /\ \A i \in Serialized :
              /\ credentials[i].Transport = Tokens(user[i].transport)
              /\ user[i].transport = <<>> => credentials[i].Transport = <<>>
              /\ user[i].transport = UsbNfc => credentials[i].Transport = <<Usb, Nfc>>
        /\ \A i \in 1..Len(credentials) :
              \A k \in 1..Len(credentials[i].Transport) :
                  credentials[i].Transport[k] # <<>>

\* Two devices were translated: one stored "usb,nfc", the other a string
\* with a leading, a doubled and a trailing delimiter.
C8_Witness ==
    /\ pc = "credentials"
    /\ marshalErr = {}
    /\ Len(user) = 2
    /\ user[1].transport = UsbNfc
    /\ user[2].transport = <<",", ",", ",">>
    /\ credentials[1].Transport = <<Usb, Nfc>>
    /\ credentials[2].Transport = <<>>

-----------------------------------------------------------------------------
(* The export container, under SpecExport.                                 *)

\* Devices to export, as the constructor builds them.
ExportDevice(k) ==
    NewWebAuthnDeviceFromCredential(
        "example.com", "john", "Primary",
        [ID |-> <<k, k>>, PublicKey |-> <<165, k>>, AttestationType |-> "packed",
         Transport |-> <<Usb>>,
         Authenticator |-> [AAGUID |-> IF k = 1 THEN HighAAGUID ELSE ZeroAAGUID,
                            SignCount |-> k, CloneWarning |-> FALSE]],
        [sec |-> k, nsec |-> 0])

ExportDevices == {ExportDevice(k) : k \in 1..3}

\* The caller gathers the devices to export.
LoadExport ==
    /\ pc = "new"
    /\ \E n \in 0..MaxRecords : \E ds \in [1..n -> ExportDevices] : export' = ds
    /\ pc' = "gathered"
    /\ UNCHANGED <<cred, device, signInVars, codecVars, userVars, exportData,
                   document, imported>>

\* The container is exported.
EncodeExport ==
    /\ pc = "gathered"
    /\ exportData' = ExportToData(export)
    /\ pc' = "exported"
    /\ UNCHANGED <<cred, device, signInVars, codecVars, userVars, export,
                   document, imported>>

\* A document is imported: the exported one, with the public_key of the
\* records in `bad` replaced by text that is not base64.
ImportExport ==
    /\ pc = "exported"
    /\ \E bad \in SUBSET (1..Len(exportData)) :
          LET doc == [i \in 1..Len(exportData) |->
                         IF i \in bad
                         THEN [exportData[i] EXCEPT !.public_key = <<"Q", "Q">>]
                         ELSE exportData[i]]
          IN  /\ document' = doc
              /\ imported' = DecodeExport(doc)
    /\ pc' = "imported"
    /\ UNCHANGED <<cred, device, signInVars, codecVars, userVars, export,
                   exportData>>

NextExport == LoadExport \/ EncodeExport \/ ImportExport

SpecExport == Init /\ [][NextExport]_vars

\* The records of the document whose public_key is not base64.
BadRecords == {i \in 1..Len(document) : StdDecodeString(document[i].public_key).err}

====
